---- MODULE Spec2Model ----
(***************************************************************************)
(* Model of the waymarks "add cities" pipeline (src/src/commands/cities.rs) *)
(* and of its two JSON stores (src/src/models/cities.rs, countries.rs).     *)
(*                                                                         *)
(* A string is a sequence of one-character strings, so that to_lowercase,  *)
(* replace(' ', "_") and format!("{name}.json") are computed, not assumed. *)
(* A file is a value of kind "array", "object" or "garbage"; a missing     *)
(* file is a path outside DOMAIN fs.  The reference dataset (countryInfo,  *)
(* cities_rows) stands for the rows read_tsv decodes from the files that   *)
(* ensure_file / unzip_file left in the download directory.                *)
(***************************************************************************)
EXTENDS Naturals, Sequences, FiniteSets

VARIABLES
    countryInfo,   \* rows of countryInfo.txt: sequence of CountryInfo
    cities_rows,   \* rows of the cities file: sequence of Geoname
    fs,            \* docs directory: path -> file content
    country,       \* command line: AddCities.country
    names,         \* command line: AddCities.names
    pc,            \* position inside add_cities
    run,           \* number of invocations started so far
    country_iso,   \* add_cities: country_iso
    country_name,  \* add_cities: country_name
    cities,        \* add_cities: the Cities collection in memory
    res,           \* get_cities: the HashMap returned
    todo,          \* keys of res the for loop of add_cities has not visited
    is_changed,    \* add_cities: is_changed
    out,           \* lines printed by this invocation
    written,       \* paths written by this invocation
    prev,          \* outcome of the previous invocation
    countries,     \* test_countries: the Countries collection in memory
    loaded         \* store tests: what load_from_file returned

vars == <<countryInfo, cities_rows, fs, country, names, pc, run, country_iso,
          country_name, cities, res, todo, is_changed, out, written, prev,
          countries, loaded>>

\* The locals of the store tests besides cities.
storeVars == <<countries, loaded>>

----------------------------------------------------------------------------
(* Bounds of the exploration. *)

MaxNames == 2
MaxRows == 3
MaxRuns == 2
MaxCountries == 2

----------------------------------------------------------------------------
(* Strings. *)

UpperChars == <<"A","B","C","D","E","F","G","H","I","J","K","L","M",
                "N","O","P","Q","R","S","T","U","V","W","X","Y","Z">>

LowerChars == <<"a","b","c","d","e","f","g","h","i","j","k","l","m",
                "n","o","p","q","r","s","t","u","v","w","x","y","z">>

\* Characters in byte order, the order of String's Ord.
ByteOrder == <<" ", ".">> \o UpperChars \o <<"_">> \o LowerChars

char_to_lowercase(c) ==
    IF \E i \in DOMAIN UpperChars : UpperChars[i] = c
    THEN LowerChars[CHOOSE i \in DOMAIN UpperChars : UpperChars[i] = c]
    ELSE c

to_lowercase(s) == [i \in 1..Len(s) |-> char_to_lowercase(s[i])]

eq_ignore_ascii_case(a, b) == to_lowercase(a) = to_lowercase(b)

replace_space(s) == [i \in 1..Len(s) |-> IF s[i] = " " THEN "_" ELSE s[i]]

Rank(c) == CHOOSE i \in DOMAIN ByteOrder : ByteOrder[i] = c

RECURSIVE StrLess(_, _)
StrLess(a, b) ==
    IF b = <<>> THEN FALSE
    ELSE IF a = <<>> THEN TRUE
    ELSE IF Head(a) = Head(b) THEN StrLess(Tail(a), Tail(b))
    ELSE Rank(Head(a)) < Rank(Head(b))

----------------------------------------------------------------------------
(* Option<T>: None is the empty sequence, Some(v) the sequence <<v>>. *)

None == <<>>
Some(v) == <<v>>
is_some(o) == o # <<>>
unwrap(o) == o[1]

(* Maps (HashMap, BTreeMap, BTreeSet are functions and sets). *)

EmptyMap == [k \in {} |-> k]

insert(m, k, v) == [x \in DOMAIN m \cup {k} |-> IF x = k THEN v ELSE m[x]]

----------------------------------------------------------------------------
(* src/src/commands/cities.rs: CountryMaps *)

CountryMaps_new == [name_to_iso |-> EmptyMap, iso_to_name |-> EmptyMap]

\* add_country keeping the letter case of the name.
add_country_keeps_case(maps, name, iso) ==
    LET i == to_lowercase(iso)
    IN  [name_to_iso |-> insert(maps.name_to_iso, name, i),
         iso_to_name |-> insert(maps.iso_to_name, i, name)]

add_country(maps, name, iso) ==
    LET n == to_lowercase(name)
        i == to_lowercase(iso)
    IN  [name_to_iso |-> insert(maps.name_to_iso, n, i),
         iso_to_name |-> insert(maps.iso_to_name, i, n)]

get_iso(maps, name) ==
    IF name \in DOMAIN maps.name_to_iso THEN Some(maps.name_to_iso[name]) ELSE None

get_name(maps, iso) ==
    IF iso \in DOMAIN maps.iso_to_name THEN Some(maps.iso_to_name[iso]) ELSE None

\* resolve_country looking the token up as it was typed.
resolve_country_as_typed(maps, name_or_iso) ==
    IF is_some(get_iso(maps, name_or_iso))
    THEN Some(<<unwrap(get_iso(maps, name_or_iso)), name_or_iso>>)
    ELSE IF is_some(get_name(maps, name_or_iso))
         THEN Some(<<name_or_iso, unwrap(get_name(maps, name_or_iso))>>)
         ELSE None

\* resolve_country taking an unknown token for a country of that name.
resolve_country_lenient(maps, name_or_iso) ==
    LET t == to_lowercase(name_or_iso)
    IN  IF is_some(get_iso(maps, t))
        THEN Some(<<unwrap(get_iso(maps, t)), t>>)
        ELSE IF is_some(get_name(maps, t))
             THEN Some(<<t, unwrap(get_name(maps, t))>>)
             ELSE Some(<<t, t>>)

\* resolve_country looking the token up as an ISO code first.
resolve_country_code_first(maps, name_or_iso) ==
    LET t == to_lowercase(name_or_iso)
    IN  IF is_some(get_name(maps, t))
        THEN Some(<<t, unwrap(get_name(maps, t))>>)
        ELSE IF is_some(get_iso(maps, t))
             THEN Some(<<unwrap(get_iso(maps, t)), t>>)
             ELSE None

resolve_country(maps, name_or_iso) ==
    LET t == to_lowercase(name_or_iso)
    IN  IF is_some(get_iso(maps, t))
        THEN Some(<<unwrap(get_iso(maps, t)), t>>)
        ELSE IF is_some(get_name(maps, t))
             THEN Some(<<t, unwrap(get_name(maps, t))>>)
             ELSE None

\* The for loop of get_country_info over the rows of countryInfo.txt.
RECURSIVE build_country_maps(_, _)
build_country_maps(maps, rows) ==
    IF rows = <<>> THEN maps
    ELSE build_country_maps(add_country(maps, Head(rows).country, Head(rows).iso),
                            Tail(rows))

\* Ok((iso, name)) is Some(<<iso, name>>), Err(..) is None.
get_country_info(rows, token) ==
    LET r == resolve_country(build_country_maps(CountryMaps_new, rows), token)
    IN  IF is_some(r)
        THEN Some(<<unwrap(r)[1], replace_space(unwrap(r)[2])>>)
        ELSE None

----------------------------------------------------------------------------
(* src/src/commands/cities.rs: get_cities *)

names_lower(ns) == [i \in 1..Len(ns) |-> to_lowercase(ns[i])]

Range(s) == {s[i] : i \in DOMAIN s}

\* res as built from names_lower: one slot per distinct lowercased name.
empty_slots(ns) == [n \in Range(names_lower(ns)) |-> None]

\* The filter closure of the for loop.
in_country(c, iso) ==
    IF is_some(c.country_code)
    THEN eq_ignore_ascii_case(unwrap(c.country_code), iso)
    ELSE FALSE

\* once(name.to_lowercase()).chain(asciiname.map(to_lowercase))
match_keys(c) ==
    <<to_lowercase(c.name)>> \o
    (IF is_some(c.asciiname) THEN <<to_lowercase(unwrap(c.asciiname))>> ELSE <<>>)

\* The inner loop: the first key that is a slot of r, or None.
first_key(r, keys) ==
    IF \E i \in DOMAIN keys : keys[i] \in DOMAIN r
    THEN Some(keys[CHOOSE i \in DOMAIN keys :
                     /\ keys[i] \in DOMAIN r
                     /\ \A j \in 1..(i-1) : keys[j] \notin DOMAIN r])
    ELSE None

\* One iteration of the outer loop: the new <<res, found>>.
scan_row(r, found, c) ==
    LET k == first_key(r, match_keys(c))
    IN  IF is_some(k)
        THEN <<insert(r, unwrap(k), Some(c)), found + 1>>
        ELSE <<r, found>>

RECURSIVE scan(_, _, _, _)
scan(rows, iso, r, found) ==
    IF rows = <<>> THEN r
    ELSE IF ~in_country(Head(rows), iso) THEN scan(Tail(rows), iso, r, found)
    ELSE LET s == scan_row(r, found, Head(rows))
         IN  IF s[2] = Cardinality(DOMAIN s[1])
             THEN s[1]
             ELSE scan(Tail(rows), iso, s[1], s[2])

get_cities(rows, ns, iso) == scan(rows, iso, empty_slots(ns), 0)

----------------------------------------------------------------------------
(* src/src/models/cities.rs and countries.rs: the two stores *)

Cities_new == EmptyMap

\* BTreeMap::insert(name, coordinates).is_none(): the new map and the result.
Cities_add(c, name, coordinates) ==
    [cities |-> insert(c, name, coordinates), ret |-> name \notin DOMAIN c]

\* BTreeSet::insert(country): the new set and the result.
Countries_add(c, name) ==
    [countries |-> c \cup {name}, ret |-> name \notin c]

\* The keys of a set of strings in ascending order (BTreeMap / BTreeSet iteration).
RECURSIVE sorted(_)
sorted(S) ==
    IF S = {} THEN <<>>
    ELSE LET m == CHOOSE x \in S : \A y \in S \ {x} : StrLess(x, y)
         IN  <<m>> \o sorted(S \ {m})

\* An f64 is a number of thousandths of a degree or NaN, which stands for the
\* values that are not finite; NaN and the JSON value null are written as two
\* numbers outside the range of every angle. serde_json writes a finite f64
\* as a number and a non-finite one as null.
NaN == 1000000

Null == 1000001

is_finite(x) == x # NaN

f64_to_json(x) == IF is_finite(x) THEN x ELSE Null

\* A JSON number read as an f64; null is not a number.
is_json_f64(v) == v # Null

\* serde_json::to_string_pretty of a BTreeMap<String, Coordinates>.
Cities_to_json(c) ==
    LET ks == sorted(DOMAIN c)
    IN  [kind |-> "object",
         items |-> [i \in 1..Len(ks) |->
                      <<ks[i], [lat |-> f64_to_json(c[ks[i]].lat),
                                lon |-> f64_to_json(c[ks[i]].lon)]>>]]

\* serde_json::to_string_pretty of a BTreeSet<String>.
Countries_to_json(c) == [kind |-> "array", items |-> sorted(c)]

RECURSIVE collect_map(_, _)
collect_map(m, items) ==
    IF items = <<>> THEN m
    ELSE collect_map(insert(m, Head(items)[1], Head(items)[2]), Tail(items))

file_exists(files, path) == path \in DOMAIN files

\* Cities::load_from_file reading another path than the one written.
Cities_load_from_file_never_found(files, path) == None

\* Cities::load_from_file: Ok(map) is Some(map); a missing file and a
\* content that is no JSON object of coordinates are both Err, None.
Cities_load_from_file(files, path) ==
    IF /\ file_exists(files, path)
       /\ files[path].kind = "object"
       /\ \A i \in DOMAIN files[path].items :
              /\ is_json_f64(files[path].items[i][2].lat)
              /\ is_json_f64(files[path].items[i][2].lon)
    THEN Some(collect_map(EmptyMap, files[path].items))
    ELSE None

\* Countries::load_from_file, likewise.
Countries_load_from_file(files, path) ==
    IF file_exists(files, path) /\ files[path].kind = "array"
    THEN Some(Range(files[path].items))
    ELSE None

\* fs::write(path, json)
write_file(files, path, json) == insert(files, path, json)

----------------------------------------------------------------------------
(* Paths of the docs directory (src/src/commands/cities.rs, config.rs). *)

DotJson == <<".", "j", "s", "o", "n">>

\* config.docs.dir.join(&config.docs.countries_file)
countries_path == <<"docs", <<"c","o","u","n","t","r","i","e","s">> \o DotJson>>

\* config.docs.dir.join(&config.docs.cities_folder).join(format!("{country_name}.json"))
country_file(name) == <<"cities", name \o DotJson>>

----------------------------------------------------------------------------
(* The inputs explored. *)

DE == <<"D","E">>
US == <<"U","S">>
UM == <<"U","M">>
Germany == <<"G","e","r","m","a","n","y">>
United_States == <<"U","n","i","t","e","d"," ","S","t","a","t","e","s">>
Berlin == <<"B","e","r","l","i","n">>
Koeln == <<"K","o","e","l","n">>
Koln == <<"K","o","l","n">>
Nope == <<"N","o","p","e">>

CountryInfo(country_, iso_) == [country |-> country_, iso |-> iso_]

Coordinates(lat_, lon_) == [lat |-> lat_, lon |-> lon_]

Geoname(id, name_, ascii, code, lat, lon) ==
    [geonameid |-> id, name |-> name_, asciiname |-> ascii, country_code |-> code,
     latitude |-> lat, longitude |-> lon]

\* Coordinates are in thousandths of a degree.
GeonameRows ==
    { Geoname(1, Berlin, Some(Berlin), Some(DE), 52520, 13405),
      Geoname(2, Berlin, None, Some(DE), 54033, 10450),
      Geoname(3, Koeln, Some(Koln), Some(DE), 50933, 6950),
      Geoname(4, Berlin, Some(Berlin), Some(US), 44469, 71185) }

\* Rows of countryInfo.txt; in the last one the name of a country is the
\* ISO code of another.
CountryInfoRows ==
    { CountryInfo(Germany, DE), CountryInfo(United_States, US), CountryInfo(US, UM) }

\* The same string in other letter cases.
to_uppercase(s) ==
    [i \in 1..Len(s) |->
        IF \E k \in DOMAIN LowerChars : LowerChars[k] = s[i]
        THEN UpperChars[CHOOSE k \in DOMAIN LowerChars : LowerChars[k] = s[i]]
        ELSE s[i]]

alternating_case(s) ==
    [i \in 1..Len(s) |->
        IF i % 2 = 1 THEN to_lowercase(s)[i] ELSE to_uppercase(s)[i]]

CaseForms(s) == { s, to_lowercase(s), to_uppercase(s), alternating_case(s) }

\* The command lines explored by the whole pipeline.
Tokens == { DE, United_States, UM, Nope }

RequestedNames == { Berlin, to_lowercase(Koln) }

\* The tokens explored by country resolution alone.
ResolveTokens ==
    UNION { CaseForms(r.country) \cup CaseForms(r.iso) : r \in CountryInfoRows }
    \cup { Nope }

SeqsUpTo(S, n) == UNION { [1..k -> S] : k \in 0..n }

Injective(s) == \A i, j \in DOMAIN s : s[i] = s[j] => i = j

Garbage == [kind |-> "garbage", items |-> <<>>]

\* What earlier invocations, or the user, can have left in the docs directory.
InitialCountriesFiles ==
    { EmptyMap,
      write_file(EmptyMap, countries_path, Countries_to_json({})),
      write_file(EmptyMap, countries_path, Countries_to_json({to_lowercase(Germany)})) }

InitialCityFiles ==
    { EmptyMap,
      write_file(EmptyMap, country_file(to_lowercase(Germany)), Garbage),
      write_file(EmptyMap, country_file(to_lowercase(Germany)),
                 Cities_to_json(insert(Cities_new, Berlin, Coordinates(54033, 10450)))) }

merge_files(a, b) ==
    [p \in DOMAIN a \cup DOMAIN b |-> IF p \in DOMAIN b THEN b[p] ELSE a[p]]

----------------------------------------------------------------------------
(* Reports: the println! lines of update_country and add_cities. *)

Report(kind_, name_) == [kind |-> kind_, name |-> name_]

\* The locals of add_cities before it has assigned them.
Locals(iso, name, c, r, t, ch, o, w) ==
    /\ country_iso = iso
    /\ country_name = name
    /\ cities = c
    /\ res = r
    /\ todo = t
    /\ is_changed = ch
    /\ out = o
    /\ written = w

Init ==
    /\ countryInfo = <<CountryInfo(Germany, DE), CountryInfo(United_States, US)>>
    /\ cities_rows \in { s \in SeqsUpTo(GeonameRows, MaxRows) : Injective(s) }
    /\ \E a \in InitialCountriesFiles, b \in InitialCityFiles : fs = merge_files(a, b)
    /\ country \in Tokens
    /\ names \in SeqsUpTo(RequestedNames, MaxNames)
    /\ pc = "start"
    /\ run = 0
    /\ Locals(<<>>, <<>>, Cities_new, EmptyMap, {}, FALSE, <<>>, {})
    /\ prev = [status |-> "none", out |-> <<>>, fs |-> fs]
    /\ countries = {}
    /\ loaded = None

\* main -> run -> add_cities: a new invocation with the same command line.
StartAddCities ==
    /\ pc \in {"start", "done", "error"}
    /\ run < MaxRuns
    /\ run' = run + 1
    /\ prev' = [status |-> pc, out |-> out, fs |-> fs]
    /\ pc' = "update_country"
    /\ country_iso' = <<>>
    /\ country_name' = <<>>
    /\ cities' = Cities_new
    /\ res' = EmptyMap
    /\ todo' = {}
    /\ is_changed' = FALSE
    /\ out' = <<>>
    /\ written' = {}
    /\ UNCHANGED storeVars
    /\ UNCHANGED <<countryInfo, cities_rows, fs, country, names>>

\* update_country: get_country_info(..)? fails.
UpdateCountryUnresolved ==
    /\ pc = "update_country"
    /\ ~is_some(get_country_info(countryInfo, country))
    /\ pc' = "error"
    /\ UNCHANGED storeVars
    /\ UNCHANGED <<countryInfo, cities_rows, fs, country, names, run, country_iso,
                   country_name, cities, res, todo, is_changed, out, written, prev>>

\* update_country: Countries::load_from_file(..)? fails.
UpdateCountryLoadFails ==
    /\ pc = "update_country"
    /\ is_some(get_country_info(countryInfo, country))
    /\ ~is_some(Countries_load_from_file(fs, countries_path))
    /\ pc' = "error"
    /\ UNCHANGED storeVars
    /\ UNCHANGED <<countryInfo, cities_rows, fs, country, names, run, country_iso,
                   country_name, cities, res, todo, is_changed, out, written, prev>>

\* update_country: counties.add(&country_name) is true.
UpdateCountryAdded ==
    /\ pc = "update_country"
    /\ is_some(get_country_info(countryInfo, country))
    /\ is_some(Countries_load_from_file(fs, countries_path))
    /\ LET info == unwrap(get_country_info(countryInfo, country))
           a == Countries_add(unwrap(Countries_load_from_file(fs, countries_path)), info[2])
       IN  /\ a.ret
           /\ fs' = write_file(fs, countries_path, Countries_to_json(a.countries))
           /\ written' = written \cup {countries_path}
           /\ out' = Append(out, Report("country_added", info[2]))
           /\ country_iso' = info[1]
           /\ country_name' = info[2]
    /\ pc' = "load_cities"
    /\ UNCHANGED storeVars
    /\ UNCHANGED <<countryInfo, cities_rows, country, names, run, cities, res, todo,
                   is_changed, prev>>

\* update_country: counties.add(&country_name) is false.
UpdateCountryExists ==
    /\ pc = "update_country"
    /\ is_some(get_country_info(countryInfo, country))
    /\ is_some(Countries_load_from_file(fs, countries_path))
    /\ LET info == unwrap(get_country_info(countryInfo, country))
           a == Countries_add(unwrap(Countries_load_from_file(fs, countries_path)), info[2])
       IN  /\ ~a.ret
           /\ out' = Append(out, Report("country_exists", info[2]))
           /\ country_iso' = info[1]
           /\ country_name' = info[2]
    /\ pc' = "load_cities"
    /\ UNCHANGED storeVars
    /\ UNCHANGED <<countryInfo, cities_rows, fs, country, names, run, cities, res, todo,
                   is_changed, written, prev>>

\* add_cities: Cities::load_from_file(..).unwrap_or_else(|_| Cities::new())
LoadCities ==
    /\ pc = "load_cities"
    /\ LET l == Cities_load_from_file(fs, country_file(country_name))
       IN  cities' = IF is_some(l) THEN unwrap(l) ELSE Cities_new
    /\ pc' = "get_cities"
    /\ UNCHANGED storeVars
    /\ UNCHANGED <<countryInfo, cities_rows, fs, country, names, run, country_iso,
                   country_name, res, todo, is_changed, out, written, prev>>

\* add_cities: let get_cities = get_cities(config, names, &country_iso).await?
GetCities ==
    /\ pc = "get_cities"
    /\ res' = get_cities(cities_rows, names, country_iso)
    /\ todo' = DOMAIN res'
    /\ pc' = "for"
    /\ UNCHANGED storeVars
    /\ UNCHANGED <<countryInfo, cities_rows, fs, country, names, run, country_iso,
                   country_name, cities, is_changed, out, written, prev>>

\* One iteration of the for loop over the HashMap, whose order is unspecified:
\* the city was found and cities.add(..) is true.
AddedCity ==
    /\ pc = "for"
    /\ \E name \in todo :
        /\ is_some(res[name])
        /\ LET city == unwrap(res[name])
               a == Cities_add(cities, city.name, Coordinates(city.latitude, city.longitude))
           IN  /\ a.ret
               /\ cities' = a.cities
               /\ is_changed' = TRUE
               /\ out' = Append(out, Report("added", city.name))
        /\ todo' = todo \ {name}
    /\ UNCHANGED storeVars
    /\ UNCHANGED <<countryInfo, cities_rows, fs, country, names, pc, run, country_iso,
                   country_name, res, written, prev>>

\* The city was found and cities.add(..) is false.
ExistingCity ==
    /\ pc = "for"
    /\ \E name \in todo :
        /\ is_some(res[name])
        /\ LET city == unwrap(res[name])
               a == Cities_add(cities, city.name, Coordinates(city.latitude, city.longitude))
           IN  /\ ~a.ret
               /\ cities' = a.cities
               /\ out' = Append(out, Report("exists", city.name))
        /\ todo' = todo \ {name}
    /\ UNCHANGED storeVars
    /\ UNCHANGED <<countryInfo, cities_rows, fs, country, names, pc, run, country_iso,
                   country_name, res, is_changed, written, prev>>

\* The city was not found.
NotFoundCity ==
    /\ pc = "for"
    /\ \E name \in todo :
        /\ ~is_some(res[name])
        /\ out' = Append(out, Report("not_found", name))
        /\ todo' = todo \ {name}
    /\ UNCHANGED storeVars
    /\ UNCHANGED <<countryInfo, cities_rows, fs, country, names, pc, run, country_iso,
                   country_name, cities, res, is_changed, written, prev>>

\* The save without the is_changed test.
SaveCitiesAlways ==
    /\ pc = "for"
    /\ todo = {}
    /\ fs' = write_file(fs, country_file(country_name), Cities_to_json(cities))
    /\ written' = written \cup {country_file(country_name)}
    /\ pc' = "done"
    /\ UNCHANGED storeVars
    /\ UNCHANGED <<countryInfo, cities_rows, country, names, run, country_iso,
                   country_name, cities, res, todo, is_changed, out, prev>>

\* After the loop: is_changed, so cities.save_to_file(..)?; Ok(())
SaveCities ==
    /\ pc = "for"
    /\ todo = {}
    /\ is_changed
    /\ fs' = write_file(fs, country_file(country_name), Cities_to_json(cities))
    /\ written' = written \cup {country_file(country_name)}
    /\ pc' = "done"
    /\ UNCHANGED storeVars
    /\ UNCHANGED <<countryInfo, cities_rows, country, names, run, country_iso,
                   country_name, cities, res, todo, is_changed, out, prev>>

\* After the loop: not is_changed; Ok(())
ReturnUnchanged ==
    /\ pc = "for"
    /\ todo = {}
    /\ ~is_changed
    /\ pc' = "done"
    /\ UNCHANGED storeVars
    /\ UNCHANGED <<countryInfo, cities_rows, fs, country, names, run, country_iso,
                   country_name, cities, res, todo, is_changed, out, written, prev>>

Next ==
    \/ StartAddCities
    \/ UpdateCountryUnresolved
    \/ UpdateCountryLoadFails
    \/ UpdateCountryAdded
    \/ UpdateCountryExists
    \/ LoadCities
    \/ GetCities
    \/ AddedCity
    \/ ExistingCity
    \/ NotFoundCity
    \/ SaveCities
    \/ ReturnUnchanged

Spec == Init /\ [][Next]_vars

----------------------------------------------------------------------------
(* Country resolution alone: update_country entered with any dataset of at *)
(* most MaxCountries rows and any token, in any letter case.               *)

InitResolve ==
    /\ countryInfo \in { s \in SeqsUpTo(CountryInfoRows, MaxCountries) : Injective(s) }
    /\ cities_rows = <<>>
    /\ fs \in InitialCountriesFiles
    /\ country \in ResolveTokens
    /\ names = <<>>
    /\ pc = "update_country"
    /\ run = 1
    /\ Locals(<<>>, <<>>, Cities_new, EmptyMap, {}, FALSE, <<>>, {})
    /\ prev = [status |-> "start", out |-> <<>>, fs |-> fs]
    /\ countries = {}
    /\ loaded = None

NextResolve ==
    \/ UpdateCountryUnresolved
    \/ UpdateCountryLoadFails
    \/ UpdateCountryAdded
    \/ UpdateCountryExists

SpecResolve == InitResolve /\ [][NextResolve]_vars

----------------------------------------------------------------------------
(* The two stores alone, as test_add_and_save_load and test_countries use  *)
(* them: any sequence of add calls, then save_to_file and load_from_file   *)
(* of the same path.                                                       *)

\* The city names, coordinates and country names the tests may add.
StoreNames == { Berlin, Koln }

StoreCoordinates ==
    { Coordinates(52520, 13405), Coordinates(54033, 10450), Coordinates(NaN, 13405) }

StoreCountries == { to_lowercase(Germany), to_lowercase(United_States) }

\* The paths the tests save to and load from.
cities_test_path == country_file(to_lowercase(Germany))

countries_test_path == countries_path

\* Positions of a test at which it may call add or save_to_file.
StoreIdle == {"store", "cities_loaded", "countries_loaded"}

InitStore ==
    /\ countryInfo = <<>>
    /\ cities_rows = <<>>
    /\ \E a \in InitialCountriesFiles, b \in InitialCityFiles : fs = merge_files(a, b)
    /\ country = <<>>
    /\ names = <<>>
    /\ pc = "store"
    /\ run = 0
    /\ Locals(<<>>, <<>>, Cities_new, EmptyMap, {}, FALSE, <<>>, {})
    /\ prev = [status |-> "none", out |-> <<>>, fs |-> fs]
    /\ countries = {}
    /\ loaded = None

\* cities.add(name, coordinates)
StoreCitiesAdd ==
    /\ pc \in StoreIdle
    /\ \E name \in StoreNames, coordinates \in StoreCoordinates :
           cities' = Cities_add(cities, name, coordinates).cities
    /\ pc' = "store"
    /\ UNCHANGED <<countryInfo, cities_rows, fs, country, names, run, country_iso,
                   country_name, res, todo, is_changed, out, written, prev,
                   countries, loaded>>

\* countries.add(country)
StoreCountriesAdd ==
    /\ pc \in StoreIdle
    /\ \E name \in StoreCountries :
           countries' = Countries_add(countries, name).countries
    /\ pc' = "store"
    /\ UNCHANGED <<countryInfo, cities_rows, fs, country, names, run, country_iso,
                   country_name, cities, res, todo, is_changed, out, written, prev,
                   loaded>>

\* cities.save_to_file(path)
StoreCitiesSave ==
    /\ pc \in StoreIdle
    /\ fs' = write_file(fs, cities_test_path, Cities_to_json(cities))
    /\ pc' = "cities_saved"
    /\ UNCHANGED <<countryInfo, cities_rows, country, names, run, country_iso,
                   country_name, cities, res, todo, is_changed, out, written, prev,
                   countries, loaded>>

\* Cities::load_from_file(path)
StoreCitiesLoad ==
    /\ pc = "cities_saved"
    /\ loaded' = Cities_load_from_file(fs, cities_test_path)
    /\ pc' = "cities_loaded"
    /\ UNCHANGED <<countryInfo, cities_rows, fs, country, names, run, country_iso,
                   country_name, cities, res, todo, is_changed, out, written, prev,
                   countries>>

\* countries.save_to_file(path)
StoreCountriesSave ==
    /\ pc \in StoreIdle
    /\ fs' = write_file(fs, countries_test_path, Countries_to_json(countries))
    /\ pc' = "countries_saved"
    /\ UNCHANGED <<countryInfo, cities_rows, country, names, run, country_iso,
                   country_name, cities, res, todo, is_changed, out, written, prev,
                   countries, loaded>>

\* Countries::load_from_file(path)
StoreCountriesLoad ==
    /\ pc = "countries_saved"
    /\ loaded' = Countries_load_from_file(fs, countries_test_path)
    /\ pc' = "countries_loaded"
    /\ UNCHANGED <<countryInfo, cities_rows, fs, country, names, run, country_iso,
                   country_name, cities, res, todo, is_changed, out, written, prev,
                   countries>>

NextStore ==
    \/ StoreCitiesAdd
    \/ StoreCountriesAdd
    \/ StoreCitiesSave
    \/ StoreCitiesLoad
    \/ StoreCountriesSave
    \/ StoreCountriesLoad

SpecStore == InitStore /\ [][NextStore]_vars

----------------------------------------------------------------------------
(* Properties. *)

\* The invocation has left update_country.
PastUpdateCountry == pc \notin {"start", "update_country"}

\* The invocation has resolved the country.
Resolved == pc \in {"load_cities", "get_cities", "for", "done"}

\* get_cities has returned.
Matched == pc \in {"for", "done"}

Kinds(o) == { o[i].kind : i \in DOMAIN o }

\* The rows of the target country, by position, that match a requested name.
matching_rows(n) ==
    { i \in DOMAIN cities_rows :
        /\ in_country(cities_rows[i], country_iso)
        /\ n \in Range(match_keys(cities_rows[i])) }

\* C1: Cities.add is first-write-wins: an add of a name the collection already
\* holds returns false (reported as "exists") and changes no entry of the
\* collection, whatever coordinates it is given.
C1_FirstWriteWins ==
    [][(pc = "for" /\ Len(out') = Len(out) + 1 /\ out'[Len(out')].kind = "exists")
        => cities' = cities]_vars

\* C2: City Matcher completeness: a requested name is left as not found only
\* if no row of the target country has a lowercased primary name or ASCII
\* name equal to the lowercased requested name.
C2_MatcherComplete ==
    Matched => \A n \in DOMAIN res : ~is_some(res[n]) => matching_rows(n) = {}

\* C3: City Matcher tie-break: the row bound to a requested name is the first
\* row in dataset order, among the rows of the target country, that matches
\* the name.
C3_FirstMatchWins ==
    Matched =>
        \A n \in DOMAIN res :
            is_some(res[n]) =>
                /\ matching_rows(n) # {}
                /\ unwrap(res[n]) =
                     cities_rows[CHOOSE i \in matching_rows(n) :
                                    \A j \in matching_rows(n) : i <= j]

\* C4: when the countries file does not exist and the token resolves, the
\* invocation starts from an empty CountrySet, writes the countries file and
\* goes on with the city steps: it does not fail.
C4_MissingCountriesFileIsNotFatal ==
    ( /\ PastUpdateCountry
      /\ ~file_exists(prev.fs, countries_path)
      /\ is_some(get_country_info(countryInfo, country)) )
    => ( /\ pc # "error"
         /\ countries_path \in written
         /\ Countries_load_from_file(fs, countries_path)
              = Some({unwrap(get_country_info(countryInfo, country))[2]}) )

\* C5: when the country's city file exists and is not valid JSON, the
\* invocation fails: the content is not taken for an empty collection, no
\* city is reported as added and the file is left as it was.
C5_CorruptCityFileIsFatal ==
    ( /\ Resolved
      /\ pc # "load_cities"
      /\ file_exists(prev.fs, country_file(country_name))
      /\ prev.fs[country_file(country_name)].kind = "garbage" )
    => ( /\ pc = "error"
         /\ "added" \notin Kinds(out)
         /\ fs[country_file(country_name)] = prev.fs[country_file(country_name)] )

----------------------------------------------------------------------------

\* The token is a registered ISO code or country name, whatever the case.
Registered(rows, t) ==
    \E i \in DOMAIN rows :
        to_lowercase(t) \in {to_lowercase(rows[i].iso), to_lowercase(rows[i].country)}

\* C6: for a token that is neither a registered ISO code nor a registered
\* country name (case-insensitively), resolution fails, the invocation ends
\* in an error, and it writes neither the countries file nor a city file.
C6_UnresolvedTokenWritesNothing ==
    (run >= 1 /\ pc # "update_country" /\ ~Registered(countryInfo, country))
    => (pc = "error" /\ written = {} /\ fs = prev.fs /\ out = <<>>)

C6_Witness ==
    /\ pc = "error"
    /\ ~Registered(countryInfo, country)
    /\ DOMAIN fs # {}

\* Names and codes are unique and no name is the code of another country.
WellFormed(rows) ==
    \A i, j \in DOMAIN rows :
        i # j =>
            /\ to_lowercase(rows[i].iso) # to_lowercase(rows[j].iso)
            /\ to_lowercase(rows[i].country) # to_lowercase(rows[j].country)
            /\ to_lowercase(rows[i].country) # to_lowercase(rows[j].iso)

\* C7: country resolution is independent of the form of the token: with
\* unique names and codes and no name equal to another country's code, the
\* ISO code and the name of a country, in any letter case, resolve to the
\* pair the invocation resolved, hence to the same CountrySet entry and the
\* same city file.
C7_ResolutionIndependentOfForm ==
    (Resolved /\ WellFormed(countryInfo)) =>
        \A i \in DOMAIN countryInfo :
            to_lowercase(country) \in {to_lowercase(countryInfo[i].iso),
                                       to_lowercase(countryInfo[i].country)}
            => \A t \in CaseForms(countryInfo[i].iso) \cup CaseForms(countryInfo[i].country) :
                  /\ get_country_info(countryInfo, t) = Some(<<country_iso, country_name>>)
                  /\ unwrap(get_country_info(countryInfo, t))[2]
                       \in unwrap(Countries_load_from_file(fs, countries_path))
                  /\ country_file(unwrap(get_country_info(countryInfo, t))[2])
                       = country_file(country_name)

C7_Witness ==
    /\ Resolved
    /\ WellFormed(countryInfo)
    /\ Len(countryInfo) = 2
    /\ country = to_uppercase(United_States)

\* C8 as stated: the canonical name stored in the countries file and used as
\* the city file name is the dataset's display name in its original letter
\* case with spaces replaced by underscores ("DE" gives ("de", "Germany")).
C8_CanonicalNameKeepsCase ==
    Resolved =>
        /\ \E i \in DOMAIN countryInfo :
              /\ country_iso = to_lowercase(countryInfo[i].iso)
              /\ country_name = replace_space(countryInfo[i].country)
        /\ country = DE => <<country_iso, country_name>> = <<to_lowercase(DE), Germany>>

\* C8 amended: the canonical name is the dataset's display name lowercased,
\* with spaces replaced by underscores: "DE" gives ("de", "germany"), the
\* countries file holds "germany" and the cities are written to germany.json.
C8_CanonicalNameIsLowercased ==
    Resolved =>
        /\ \E i \in DOMAIN countryInfo :
              /\ to_lowercase(country) \in {to_lowercase(countryInfo[i].iso),
                                            to_lowercase(countryInfo[i].country)}
              /\ country_iso = to_lowercase(countryInfo[i].iso)
              /\ country_name = replace_space(to_lowercase(countryInfo[i].country))
        /\ country = DE =>
              <<country_iso, country_name>> = <<to_lowercase(DE), to_lowercase(Germany)>>
        /\ country_name \in unwrap(Countries_load_from_file(fs, countries_path))
        /\ written \subseteq {countries_path, country_file(country_name)}
        /\ (pc = "done" /\ "added" \in Kinds(out)) =>
              /\ country_file(country_name) \in written
              /\ Cities_load_from_file(fs, country_file(country_name)) = Some(cities)

C8_Witness ==
    /\ pc = "done"
    /\ country = DE
    /\ "added" \in Kinds(out)
    /\ written = {countries_path, country_file(to_lowercase(Germany))}

\* The paths whose content differs from what it was when the invocation began.
changed_paths ==
    { p \in DOMAIN fs \cup DOMAIN prev.fs :
        \/ p \notin DOMAIN fs
        \/ p \notin DOMAIN prev.fs
        \/ fs[p] # prev.fs[p] }

\* C9: a store's file is written only if the store was mutated in the
\* invocation: the countries file only when the resolved country was not in
\* the loaded set, the city file only when a city add returned true; when
\* every city is "already exists" or "not found" the city files are untouched.
C9_WrittenOnlyIfMutated ==
    run >= 1 =>
        /\ changed_paths \subseteq written
        /\ countries_path \in written =>
              /\ is_some(Countries_load_from_file(prev.fs, countries_path))
              /\ country_name \notin unwrap(Countries_load_from_file(prev.fs, countries_path))
        /\ (written \ {countries_path} # {}) => "added" \in Kinds(out)
        /\ "added" \notin Kinds(out) => changed_paths \subseteq {countries_path}

C9_Witness ==
    /\ pc = "done"
    /\ Kinds(out) = {"country_exists", "exists", "not_found"}
    /\ written = {}
    /\ file_exists(fs, country_file(country_name))

visited(n) == Matched /\ to_lowercase(n) \in DOMAIN res \ todo

\* C11: the requested names are processed and reported in input order: of two
\* names that differ case-insensitively, the one that comes first in the
\* input list has its add attempt and its report before the other's.
C11_ProcessedInInputOrder ==
    \A i, j \in DOMAIN names :
        (i < j /\ to_lowercase(names[i]) # to_lowercase(names[j]))
        => (visited(names[j]) => visited(names[i]))

----------------------------------------------------------------------------

\* The lowercased token is a registered country name / ISO code.
is_name(rows, t) == \E i \in DOMAIN rows : to_lowercase(rows[i].country) = t
is_code(rows, t) == \E i \in DOMAIN rows : to_lowercase(rows[i].iso) = t

\* The code registered for a name and the name registered for a code; of
\* rows with the same key the last one read is the registered one.
code_for_name(rows, t) ==
    LET i == CHOOSE i \in DOMAIN rows :
                 /\ to_lowercase(rows[i].country) = t
                 /\ \A j \in DOMAIN rows : j > i => to_lowercase(rows[j].country) # t
    IN  to_lowercase(rows[i].iso)

name_for_code(rows, t) ==
    LET i == CHOOSE i \in DOMAIN rows :
                 /\ to_lowercase(rows[i].iso) = t
                 /\ \A j \in DOMAIN rows : j > i => to_lowercase(rows[j].iso) # t
    IN  to_lowercase(rows[i].country)

\* C13 as stated: resolve checks the ISO-code direction first: when the
\* lowercased token is a registered ISO code, the resolved pair is (token,
\* the name registered for that code), also when the token is the registered
\* name of another country.
C13_CodeDirectionFirst ==
    (Resolved /\ is_code(countryInfo, to_lowercase(country))) =>
        /\ country_iso = to_lowercase(country)
        /\ country_name
             = replace_space(name_for_code(countryInfo, to_lowercase(country)))

\* C13: resolve checks the name direction first: when the lowercased token
\* is a registered country name, the resolved pair is (the code registered
\* for that name, token), also when the token is the ISO code of another
\* country; the code lookup is used only when the token is not a known name.
C13_NameDirectionFirst ==
    Resolved =>
        LET t == to_lowercase(country)
        IN  IF is_name(countryInfo, t)
            THEN /\ country_iso = code_for_name(countryInfo, t)
                 /\ country_name = replace_space(t)
            ELSE /\ is_code(countryInfo, t)
                 /\ country_iso = t
                 /\ country_name = replace_space(name_for_code(countryInfo, t))

C13_Witness ==
    /\ Resolved
    /\ is_name(countryInfo, to_lowercase(country))
    /\ is_code(countryInfo, to_lowercase(country))
    /\ name_for_code(countryInfo, to_lowercase(country)) # to_lowercase(country)
    /\ country_iso # to_lowercase(country)

----------------------------------------------------------------------------

\* Every coordinate of the collection is a finite number.
all_finite(c) == \A k \in DOMAIN c : is_finite(c[k].lat) /\ is_finite(c[k].lon)

\* C12: round trip of both stores: for every CityCollection and CountrySet
\* built by any sequence of add calls, save_to_file followed by
\* load_from_file of the same path yields a collection with exactly the
\* same keys and, for cities, the same coordinates for each key.
C12_RoundTrip ==
    /\ pc = "cities_loaded" =>
          /\ is_some(loaded)
          /\ DOMAIN unwrap(loaded) = DOMAIN cities
          /\ \A k \in DOMAIN cities : unwrap(loaded)[k] = cities[k]
    /\ pc = "countries_loaded" =>
          /\ is_some(loaded)
          /\ unwrap(loaded) = countries

\* What does hold: the round trip of every CountrySet and of every
\* CityCollection whose coordinates are all finite.
RoundTripOfFiniteCoordinates ==
    /\ (pc = "cities_loaded" /\ all_finite(cities)) => loaded = Some(cities)
    /\ pc = "countries_loaded" => loaded = Some(countries)

====
